---- MODULE Spec2Model ----
(***************************************************************************)
(* A model of the web-scraping toolkit of 1Introduction/Part4_exo*.py:     *)
(* the HTTP requesters with bounded recursive retry and user-agent         *)
(* rotation (Part4_exo1.py, Part4_exo3.py), the scrapers built on them     *)
(* (Part4_exo4.py, Part4_exo_final.py) and the text helpers                *)
(* (Part4_exo2.py).                                                        *)
(***************************************************************************)
EXTENDS Integers, Sequences, FiniteSets, TLC

(***************************************************************************)
(* Bounds of the model.                                                    *)
(***************************************************************************)
\* largest max_retries a caller passes to get/post
MaxRetriesBound == 2
\* len(user_agents): the pool is user_agents[0 .. PoolSize-1], here 1..PoolSize
PoolSize == 2
\* largest retry_delay a caller passes, in seconds
MaxDelay == 1
\* most feeds passed to scrape_news (one longer list exercises its limit)
MaxFeeds == 1
\* most <item> elements of one RSS feed
MaxItems == 2
\* most get/post calls in the body of a `with` block
MaxBodyCalls == 2
\* most elements of an article page
MaxElems == 3
\* most characters of a text passed to remove_extra_spaces
MaxText == 4
\* most labels of a host name passed to extract_domain
MaxLabels == 4
\* most <img> tags, or <a> tags, of a page whose links are extracted
MaxTags == 2
\* how far below and above the truncation limit the lengths of page texts go
MaxAround == 3

(***************************************************************************)
(* Program constants.                                                      *)
(***************************************************************************)
DEFAULT_TIMEOUT == 10
DefaultMaxRetries == 3
DefaultRetryDelay == 1
ScraperTimeout == 15
FeedLimit == 5
SearchesInMain == 2
ArticlePause == 1
FeedPause == 2
SearchPause == 2
TruncateLimit == 1000

VARIABLES
    \* ---- the requester object (HTTPRequester / ImprovedHTTPRequester)
    cls,          \* which class was constructed
    rotate,       \* self.rotate_user_agent (FALSE for HTTPRequester)
    ua,           \* session.headers['User-Agent'], an index into the pool
    closed,       \* number of times session.close() has run
    \* ---- one get/post call and its recursion _request_with_retry
    fpc,          \* "idle" | "request" | "sleep" | "returned" | "raised"
    method,       \* 'GET' | 'POST'
    timeout,      \* the timeout passed to session.request
    maxRetries,   \* max_retries
    retryDelay,   \* retry_delay
    attempt,      \* current_attempt of the innermost recursive call
    response,     \* what the last session.request produced
    \* ---- history of the call (what a fake transport and clock would record)
    requests,     \* session.request calls issued by this get/post
    sleeps,       \* time.sleep calls made by this get/post
    failures,     \* attempts of this call that ended in the except branch
    sentUA,       \* User-Agent header carried by the last request (0: none)
    events,       \* <<kind, n>>: <<"rotate", 0>>, <<"request", 0>>, <<"sleep", seconds>>
    \* ---- the program that owns the requester
    prog,         \* "client" | "with" | "rss" | "search"
    spc,          \* its control position
    uncaught,     \* an exception has left the program's outermost frame
    count,        \* calls made by the `with` body / searches made by the main
    \* ---- RSSNewsScraper.scrape_news
    feeds,        \* rss_feeds: for each feed, whether it has a 'url'
    maxPerFeed,   \* max_articles_per_feed
    scrapeFull,   \* scrape_full_content
    feedIdx,      \* position of the feed loop (1-based)
    articles,     \* what parse_rss_feed returned for the current feed
    artIdx,       \* position of the article loop (1-based)
    parsed,       \* history: <<feed, number of articles parse_rss_feed returned, stage>>
    out,          \* all_articles
    saStage,      \* history: where the last scrape_article failed, or "ok"
    saResult,     \* history: what the last scrape_article gave its caller
    saRequests,   \* history: requests of the fetches the last scrape_article has finished
    paced,        \* history: seconds slept by scrape_news and the mains for pacing
    \* ---- RSSNewsScraper.scrape_article, after the fetches
    doc,          \* soup: the elements of the page
    apc,          \* "none" | "soup" | "selected" | "text"
    articleBody,  \* article_body: the position of an element of doc, 0 for None
    consulted,    \* history: the number of selectors select_one was called with
    mainText,     \* main_text
    pageData,     \* page_data: what parse_page returned (title, h1_tags, main_text)
    articleTitle, \* 'article_title' of the returned record
    \* ---- one call of a function of Part4_exo2.py or of a link extraction
    callee,       \* the function called ("none": no such call)
    args,         \* its arguments, by parameter name
    result,       \* what it returned
    cpc           \* "none" | "called" | "returned"

objVars   == <<cls, rotate, ua, closed>>
callVars  == <<fpc, method, timeout, maxRetries, retryDelay, attempt, response>>
histVars  == <<requests, sleeps, failures, sentUA, events>>
fetchVars == <<objVars, callVars, histVars>>
progVars  == <<prog, spc, uncaught, count>>
newsVars  == <<feeds, maxPerFeed, scrapeFull, feedIdx, articles, artIdx, parsed,
               out, saStage, saResult, saRequests, paced>>
scraperVars == <<progVars, newsVars>>
articleVars == <<doc, apc, articleBody, consulted, mainText, pageData, articleTitle>>
pureVars  == <<callee, args, result, cpc>>
vars      == <<fetchVars, scraperVars, articleVars, pureVars>>

(***************************************************************************)
(* The transport: session.request either raises a transport error          *)
(* (ConnectionError, Timeout, ...: all RequestException) or yields a       *)
(* response with a status code.                                            *)
(***************************************************************************)
StatusCodes == {101, 200, 304, 404, 500}
NoResponse  == [exc |-> FALSE, status |-> 0]
Outcomes    == {[exc |-> TRUE, status |-> 0]}
                 \cup {[exc |-> FALSE, status |-> s] : s \in StatusCodes}

\* response.raise_for_status(): HTTPError for a 4xx or 5xx status, nothing else
RaiseForStatusNarrow(status) == 500 <= status /\ status < 600
RaiseForStatus(status) == 400 <= status /\ status < 600

\* the try block of _request_with_retry ends in the except branch
EntersExcept(o) == o.exc \/ RaiseForStatus(o.status)

\* `if current_attempt >= max_retries: raise e`
ExhaustedStrict(att, mr) == att > mr
ExhaustedEarly(att, mr) == att + 1 >= mr
Exhausted(att, mr) == att >= mr

\* time.sleep(retry_delay): the duration slept before retry number att + 1
SleepDurationLinear(rd, att) == rd * (att + 1)
SleepDuration(rd, att) == rd

\* `if self.rotate_user_agent: self._update_user_agent()` before the recursive call
RetryNeverRotates(rot) == FALSE
RetryRotates(rot) == rot

\* _update_user_agent: random.choice(self.user_agents), or user_agents[0]
Pool == 1..PoolSize
UpdateUserAgent(rot) == IF rot THEN Pool ELSE {1}

\* `timeout = timeout or self.DEFAULT_TIMEOUT` (0 stands for None)
EffectiveTimeout(t) == IF t = 0 THEN DEFAULT_TIMEOUT ELSE t

Classes == {"HTTPRequester", "ImprovedHTTPRequester"}

(***************************************************************************)
(* __init__: the session is created and the first User-Agent installed.    *)
(***************************************************************************)
Constructed(c, rot) ==
    /\ cls = c
    /\ rotate = rot
    /\ ua \in (IF c = "ImprovedHTTPRequester" THEN UpdateUserAgent(rot) ELSE {1})
    /\ closed = 0
    /\ fpc = "idle"
    /\ method = "GET"
    /\ timeout = DEFAULT_TIMEOUT
    /\ maxRetries = 0
    /\ retryDelay = 0
    /\ attempt = 0
    /\ response = NoResponse
    /\ requests = 0
    /\ sleeps = 0
    /\ failures = 0
    /\ sentUA = 0
    /\ events = <<>>

(***************************************************************************)
(* get / post up to the first call of _request_with_retry.                 *)
(* ImprovedHTTPRequester rotates the User-Agent first; HTTPRequester has   *)
(* no rotation at all.                                                     *)
(***************************************************************************)
CallBody(m, t, mr, rd) ==
    /\ method' = m
    /\ timeout' = EffectiveTimeout(t)
    /\ maxRetries' = mr
    /\ retryDelay' = rd
    /\ attempt' = 0
    /\ response' = NoResponse
    /\ requests' = 0
    /\ sleeps' = 0
    /\ failures' = 0
    /\ sentUA' = 0
    /\ IF cls = "ImprovedHTTPRequester" /\ rotate
          THEN \E u \in UpdateUserAgent(rotate) :
                  /\ ua' = u
                  /\ events' = <<<<"rotate", 0>>>>
          ELSE /\ ua' = ua
               /\ events' = <<>>
    /\ fpc' = "request"
    /\ UNCHANGED <<cls, rotate, closed>>

Call(m, t, mr, rd) ==
    /\ fpc = "idle"
    /\ CallBody(m, t, mr, rd)

Get ==
    /\ prog = "client"
    /\ \E t \in {0, ScraperTimeout}, mr \in 0..MaxRetriesBound, rd \in 0..MaxDelay :
          Call("GET", t, mr, rd)
    /\ UNCHANGED scraperVars
    /\ UNCHANGED <<articleVars, pureVars>>

Post ==
    /\ prog = "client"
    /\ \E t \in {0, ScraperTimeout}, mr \in 0..MaxRetriesBound, rd \in 0..MaxDelay :
          Call("POST", t, mr, rd)
    /\ UNCHANGED scraperVars
    /\ UNCHANGED <<articleVars, pureVars>>

(***************************************************************************)
(* One activation of _request_with_retry up to its return, its raise or    *)
(* its time.sleep: session.request, raise_for_status, and the except       *)
(* branch's test of current_attempt.                                       *)
(***************************************************************************)
Request ==
    /\ fpc = "request"
    /\ \E o \in Outcomes :
          /\ response' = o
          /\ requests' = requests + 1
          /\ sentUA' = ua
          /\ events' = Append(events, <<"request", 0>>)
          /\ IF ~EntersExcept(o)
                THEN /\ fpc' = "returned"
                     /\ failures' = failures
                ELSE /\ failures' = failures + 1
                     /\ fpc' = IF Exhausted(attempt, maxRetries)
                                  THEN "raised" ELSE "sleep"
    /\ UNCHANGED <<objVars, method, timeout, maxRetries, retryDelay, attempt, sleeps>>
    /\ UNCHANGED scraperVars
    /\ UNCHANGED <<articleVars, pureVars>>

(***************************************************************************)
(* The rest of the except branch: time.sleep(retry_delay), the rotation    *)
(* for the retry, and the recursive call with current_attempt + 1.         *)
(***************************************************************************)
SleepRetry ==
    /\ fpc = "sleep"
    /\ sleeps' = sleeps + 1
    /\ attempt' = attempt + 1
    /\ response' = NoResponse
    /\ LET slept == Append(events, <<"sleep", SleepDuration(retryDelay, attempt)>>)
       IN  IF cls = "ImprovedHTTPRequester" /\ RetryRotates(rotate)
              THEN \E u \in UpdateUserAgent(rotate) :
                      /\ ua' = u
                      /\ events' = Append(slept, <<"rotate", 0>>)
              ELSE /\ ua' = ua
                   /\ events' = slept
    /\ fpc' = "request"
    /\ UNCHANGED <<cls, rotate, closed, method, timeout, maxRetries, retryDelay,
                   requests, failures, sentUA>>
    /\ UNCHANGED scraperVars
    /\ UNCHANGED <<articleVars, pureVars>>

\* the caller has its response, or has caught the exception, and goes on
Done == fpc \in {"returned", "raised"}

\* the frames of the call are gone: nothing of it is left but the session
ForgetFrames ==
    /\ fpc' = "idle"
    /\ method' = "GET"
    /\ timeout' = DEFAULT_TIMEOUT
    /\ maxRetries' = 0
    /\ retryDelay' = 0
    /\ attempt' = 0
    /\ response' = NoResponse
    /\ requests' = 0
    /\ sleeps' = 0
    /\ failures' = 0
    /\ sentUA' = 0
    /\ events' = <<>>

ForgetCall ==
    /\ ForgetFrames
    /\ UNCHANGED objVars

Finish ==
    /\ prog = "client"
    /\ Done
    /\ ForgetCall
    /\ UNCHANGED scraperVars
    /\ UNCHANGED <<articleVars, pureVars>>

(***************************************************************************)
(* A requester used directly by a client: any sequence of get and post     *)
(* calls, with any arguments, against any transport.                       *)
(***************************************************************************)
NoProgram(p, at) ==
    /\ prog = p
    /\ spc = at
    /\ uncaught = FALSE
    /\ count = 0

NoNews ==
    /\ feeds = <<>>
    /\ maxPerFeed = 0
    /\ scrapeFull = FALSE
    /\ feedIdx = 1
    /\ articles = <<>>
    /\ artIdx = 1
    /\ parsed = <<>>
    /\ out = <<>>
    /\ saStage = "none"
    /\ saResult = "none"
    /\ saRequests = 0
    /\ paced = 0

\* no function of Part4_exo2.py is being called
NoCall ==
    /\ callee = "none"
    /\ args = <<>>
    /\ result = <<>>
    /\ cpc = "none"

\* a page_data nothing has been read from
NoPageData == [main_text |-> <<>>, title |-> <<>>, h1_tags |-> <<>>]

NoArticle ==
    /\ doc = <<>>
    /\ apc = "none"
    /\ articleBody = 0
    /\ consulted = 0
    /\ mainText = <<>>
    /\ pageData = NoPageData
    /\ articleTitle = <<>>

Init ==
    /\ \E c \in Classes, rot \in BOOLEAN :
          /\ (c = "HTTPRequester" => rot = FALSE)
          /\ Constructed(c, rot)
    /\ NoProgram("client", "client")
    /\ NoNews
    /\ NoArticle
    /\ NoCall

Next == Get \/ Post \/ Request \/ SleepRetry \/ Finish

Spec == Init /\ [][Next]_vars

\* a blocking session.request returns or times out, and time.sleep returns
FairSpec == Spec /\ WF_vars(Request) /\ WF_vars(SleepRetry)

(***************************************************************************)
(* The programs that own a requester.                                      *)
(*   "with":   `with HTTPRequester() as req:` / `with ImprovedHTTPRequester *)
(*             (...) as requester:` and its body                           *)
(*   "rss":    the main of Part4_exo_final.py: RSSNewsScraper, scrape_news, *)
(*             close                                                       *)
(*   "search": the main of Part4_exo4.py: GoogleSearchScraper, two          *)
(*             searches, close                                             *)
(***************************************************************************)
Min(a, b) == IF a <= b THEN a ELSE b

SeqsUpTo(S, n) == UNION {[1..k -> S] : k \in 0..n}

\* rss_feeds: lists of up to MaxFeeds feeds, and one list longer than FeedLimit
FeedInputs == SeqsUpTo(BOOLEAN, MaxFeeds)
                 \cup {[i \in 1..(FeedLimit + 1) |-> i >= FeedLimit - 1]}

\* an <item> gives an article with a link ("url"), one without ("nourl"), or
\* raises inside the per-item try ("bad")
ItemKinds == {"url", "nourl", "bad"}
ItemLists == SeqsUpTo(ItemKinds, MaxItems)

\* the per-item `except Exception: continue` of parse_rss_feed
ParseItems(items) == SelectSeq(items, LAMBDA k : k # "bad")

\* `except Exception` of parse_rss_feed returns [] whatever failed
ParseRssFeedOnError(stage) == "empty"

\* `except Exception` of scrape_article returns {} whatever failed
ScrapeArticleOnErrorPartial(stage) == IF stage = "fetch1" THEN "empty" ELSE "raise"
ScrapeArticleOnError(stage) == "empty"

\* `except Exception` of search_duckduckgo returns []
SearchOnError(stage) == "empty"

\* __exit__ runs self.close() whatever exc_type is
ExitClosesOnSuccessOnly(raised) == ~raised
ExitCloses(raised) == TRUE

\* scrape_news: {**article, **full_article, 'category': category} is appended
\* whatever scrape_article returned
MergedOnlyIfScraped(f, i, kind) ==
    IF kind = "empty" THEN <<>> ELSE <<[feed |-> f, item |-> i, kind |-> kind]>>
Merged(f, i, kind) == <<[feed |-> f, item |-> i, kind |-> kind]>>

ScraperInit ==
    /\ NoArticle
    /\ NoCall
    /\ \/ /\ \E c \in Classes, rot \in BOOLEAN :
                /\ (c = "HTTPRequester" => rot = FALSE)
                /\ Constructed(c, rot)
          /\ NoProgram("with", "body")
          /\ NoNews
       \/ /\ Constructed("ImprovedHTTPRequester", TRUE)
          /\ NoProgram("search", "search")
          /\ NoNews
       \/ /\ Constructed("ImprovedHTTPRequester", TRUE)
          /\ NoProgram("rss", "feedLoop")
          /\ feeds \in FeedInputs
          /\ maxPerFeed \in 0..MaxItems
          /\ scrapeFull \in BOOLEAN
          /\ feedIdx = 1
          /\ articles = <<>>
          /\ artIdx = 1
          /\ parsed = <<>>
          /\ out = <<>>
          /\ saStage = "none"
          /\ saResult = "none"
          /\ saRequests = 0
          /\ paced = 0

\* an exception no frame catches ends the program where it is
Crash ==
    /\ spc' = "crashed"
    /\ uncaught' = TRUE
    /\ UNCHANGED <<prog, count>>

\* get_soup / get as the scrapers call them: timeout=15, the default retries
ScraperGet == CallBody("GET", ScraperTimeout, DefaultMaxRetries, DefaultRetryDelay)

(***************************************************************************)
(* The `with` block.                                                       *)
(***************************************************************************)
BodyCall ==
    /\ prog = "with" /\ spc = "body"
    /\ count < MaxBodyCalls
    /\ \E m \in {"GET", "POST"}, mr \in 0..MaxRetriesBound :
          Call(m, 0, mr, DefaultRetryDelay)
    /\ spc' = "bodyFetch"
    /\ count' = count + 1
    /\ UNCHANGED <<prog, uncaught, newsVars>>
    /\ UNCHANGED <<articleVars, pureVars>>

WithExit(raised) ==
    /\ closed' = IF ExitCloses(raised) THEN closed + 1 ELSE closed
    /\ spc' = "exited"
    /\ uncaught' = raised
    /\ UNCHANGED <<cls, rotate, ua, prog, count>>

\* the call returned, or raised into a try of the body (Part4_exo3.py main)
BodyGoesOn ==
    /\ prog = "with" /\ spc = "bodyFetch"
    /\ Done
    /\ ForgetCall
    /\ spc' = "body"
    /\ UNCHANGED <<prog, uncaught, count, newsVars>>
    /\ UNCHANGED <<articleVars, pureVars>>

\* the call raised and the body does not catch (Part4_exo1.py main)
BodyRaises ==
    /\ prog = "with" /\ spc = "bodyFetch"
    /\ fpc = "raised"
    /\ ForgetFrames
    /\ WithExit(TRUE)
    /\ UNCHANGED newsVars
    /\ UNCHANGED <<articleVars, pureVars>>

BodyEnds ==
    /\ prog = "with" /\ spc = "body"
    /\ WithExit(FALSE)
    /\ UNCHANGED <<callVars, histVars, newsVars>>
    /\ UNCHANGED <<articleVars, pureVars>>

(***************************************************************************)
(* GoogleSearchScraper: search_and_display -> search -> search_duckduckgo, *)
(* twice, with a pause in between, then close.                             *)
(***************************************************************************)
SearchDuckDuckGo ==
    /\ prog = "search" /\ spc = "search"
    /\ count < SearchesInMain
    /\ fpc = "idle"
    /\ ScraperGet
    /\ spc' = "searchFetch"
    /\ UNCHANGED <<prog, uncaught, count, newsVars>>
    /\ UNCHANGED <<articleVars, pureVars>>

\* get_soup returned or raised; the result loop skips what it cannot read
SearchDone ==
    /\ prog = "search" /\ spc = "searchFetch"
    /\ Done
    /\ ForgetCall
    /\ IF fpc = "raised" /\ SearchOnError("fetch") = "raise"
          THEN /\ Crash
               /\ paced' = paced
          ELSE /\ spc' = "search"
               /\ count' = count + 1
               /\ paced' = IF count + 1 < SearchesInMain THEN paced + SearchPause ELSE paced
               /\ UNCHANGED <<prog, uncaught>>
    /\ UNCHANGED <<feeds, maxPerFeed, scrapeFull, feedIdx, articles, artIdx, parsed,
                   out, saStage, saResult, saRequests>>
    /\ UNCHANGED <<articleVars, pureVars>>

(***************************************************************************)
(* scraper.close() at the end of either main.                              *)
(***************************************************************************)
ScraperClose ==
    /\ \/ prog = "search" /\ spc = "search" /\ count = SearchesInMain
       \/ prog = "rss" /\ spc = "mainEnd"
    /\ closed' = closed + 1
    /\ spc' = "exited"
    /\ UNCHANGED <<cls, rotate, ua, callVars, histVars, prog, uncaught, count, newsVars>>
    /\ UNCHANGED <<articleVars, pureVars>>

(***************************************************************************)
(* RSSNewsScraper.scrape_news: the feed loop.                              *)
(***************************************************************************)
\* `for feed in rss_feeds[:5]` is over: return all_articles
ScrapeNewsReturns ==
    /\ prog = "rss" /\ spc = "feedLoop"
    /\ feedIdx > Min(Len(feeds), FeedLimit)
    /\ spc' = "mainEnd"
    /\ UNCHANGED <<fetchVars, prog, uncaught, count, newsVars>>
    /\ UNCHANGED <<articleVars, pureVars>>

\* `if not url: continue`
SkipFeed ==
    /\ prog = "rss" /\ spc = "feedLoop"
    /\ feedIdx <= Min(Len(feeds), FeedLimit)
    /\ ~feeds[feedIdx]
    /\ feedIdx' = feedIdx + 1
    /\ UNCHANGED <<fetchVars, progVars, feeds, maxPerFeed, scrapeFull, articles,
                   artIdx, parsed, out, saStage, saResult, saRequests, paced>>
    /\ UNCHANGED <<articleVars, pureVars>>

\* parse_rss_feed up to self.requester.get(rss_url, timeout=15)
ParseRssFeed ==
    /\ prog = "rss" /\ spc = "feedLoop"
    /\ feedIdx <= Min(Len(feeds), FeedLimit)
    /\ feeds[feedIdx]
    /\ fpc = "idle"
    /\ ScraperGet
    /\ spc' = "feedFetch"
    /\ UNCHANGED <<prog, uncaught, count, newsVars>>
    /\ UNCHANGED <<articleVars, pureVars>>

\* the rest of parse_rss_feed: ET.fromstring, the item loop, or the except
ParseRssFeedDone ==
    /\ prog = "rss" /\ spc = "feedFetch"
    /\ Done
    /\ ForgetCall
    /\ \E xmlOk \in BOOLEAN, items \in ItemLists :
          LET stage == IF fpc = "raised" THEN "fetch"
                       ELSE IF ~xmlOk THEN "xml" ELSE "ok"
          IN  /\ (stage # "ok" => items = <<>>)
              /\ (fpc = "raised" => xmlOk)
              /\ IF stage # "ok" /\ ParseRssFeedOnError(stage) = "raise"
                    THEN /\ Crash
                         /\ UNCHANGED <<articles, artIdx, parsed>>
                    ELSE /\ articles' = ParseItems(items)
                         /\ artIdx' = 1
                         /\ parsed' = Append(parsed, <<feedIdx, Len(ParseItems(items)), stage>>)
                         /\ spc' = "artLoop"
                         /\ UNCHANGED <<prog, uncaught, count>>
    /\ UNCHANGED <<feeds, maxPerFeed, scrapeFull, feedIdx, out, saStage, saResult,
                   saRequests, paced>>
    /\ UNCHANGED <<articleVars, pureVars>>

(***************************************************************************)
(* scrape_news: the article loop, and scrape_article.                      *)
(***************************************************************************)
\* `for article in articles[:max_articles_per_feed]` is over: time.sleep(2)
EndFeed ==
    /\ prog = "rss" /\ spc = "artLoop"
    /\ artIdx > Min(Len(articles), maxPerFeed)
    /\ paced' = paced + FeedPause
    /\ feedIdx' = feedIdx + 1
    /\ spc' = "feedLoop"
    /\ UNCHANGED <<fetchVars, prog, uncaught, count, feeds, maxPerFeed, scrapeFull,
                   articles, artIdx, parsed, out, saStage, saResult, saRequests>>
    /\ UNCHANGED <<articleVars, pureVars>>

\* the else branch: all_articles.append(article)
KeepRssArticle ==
    /\ prog = "rss" /\ spc = "artLoop"
    /\ artIdx <= Min(Len(articles), maxPerFeed)
    /\ ~(scrapeFull /\ articles[artIdx] = "url")
    /\ out' = Append(out, [feed |-> feedIdx, item |-> artIdx, kind |-> "rss"])
    /\ artIdx' = artIdx + 1
    /\ UNCHANGED <<fetchVars, progVars, feeds, maxPerFeed, scrapeFull, feedIdx,
                   articles, parsed, saStage, saResult, saRequests, paced>>
    /\ UNCHANGED <<articleVars, pureVars>>

\* time.sleep(1), then scrape_article up to the request of
\* parse_page -> get_soup -> get
ScrapeArticle ==
    /\ prog = "rss" /\ spc = "artLoop"
    /\ artIdx <= Min(Len(articles), maxPerFeed)
    /\ scrapeFull /\ articles[artIdx] = "url"
    /\ fpc = "idle"
    /\ paced' = paced + ArticlePause
    /\ ScraperGet
    /\ spc' = "pageFetch"
    /\ saStage' = "none"
    /\ saResult' = "none"
    /\ saRequests' = 0
    /\ UNCHANGED <<prog, uncaught, count, feeds, maxPerFeed, scrapeFull, feedIdx,
                   articles, artIdx, parsed, out>>
    /\ UNCHANGED <<articleVars, pureVars>>

\* scrape_article is over with `kind` ("full": the record, "empty": {} from the
\* except branch, "raise": nothing catches) and scrape_news appends its record
ScrapeArticleEnds(kind, stage) ==
    /\ saStage' = stage
    /\ saResult' = kind
    /\ IF kind = "raise"
          THEN /\ Crash
               /\ UNCHANGED <<artIdx, out>>
          ELSE /\ out' = out \o Merged(feedIdx, artIdx, kind)
               /\ artIdx' = artIdx + 1
               /\ spc' = "artLoop"
               /\ UNCHANGED <<prog, uncaught, count>>

\* parse_page after its get_soup: the page is parsed, or something raises; then
\* scrape_article's own get_soup starts the second fetch of the same URL
ParsePageDone ==
    /\ prog = "rss" /\ spc = "pageFetch"
    /\ Done
    /\ saRequests' = saRequests + requests
    /\ \E parseOk \in BOOLEAN :
          LET stage == IF fpc = "raised" THEN "fetch1"
                       ELSE IF ~parseOk THEN "parse" ELSE "ok"
          IN  /\ (fpc = "raised" => parseOk)
              /\ IF stage = "ok"
                    THEN /\ ScraperGet
                         /\ spc' = "soupFetch"
                         /\ UNCHANGED <<prog, uncaught, count, artIdx, out,
                                        saStage, saResult>>
                    ELSE /\ ForgetCall
                         /\ ScrapeArticleEnds(ScrapeArticleOnError(stage), stage)
    /\ UNCHANGED <<feeds, maxPerFeed, scrapeFull, feedIdx, articles, parsed, paced>>
    /\ UNCHANGED <<articleVars, pureVars>>

\* scrape_article after its get_soup: body, images and the record, or the except
GetSoupDone ==
    /\ prog = "rss" /\ spc = "soupFetch"
    /\ Done
    /\ ForgetCall
    /\ saRequests' = saRequests + requests
    /\ \E extractOk \in BOOLEAN :
          LET stage == IF fpc = "raised" THEN "fetch2"
                       ELSE IF ~extractOk THEN "extract" ELSE "ok"
          IN  /\ (fpc = "raised" => extractOk)
              /\ IF stage = "ok"
                    THEN ScrapeArticleEnds("full", "ok")
                    ELSE ScrapeArticleEnds(ScrapeArticleOnError(stage), stage)
    /\ UNCHANGED <<feeds, maxPerFeed, scrapeFull, feedIdx, articles, parsed, paced>>
    /\ UNCHANGED <<articleVars, pureVars>>

ScraperNext ==
    \/ Request \/ SleepRetry
    \/ BodyCall \/ BodyGoesOn \/ BodyRaises \/ BodyEnds
    \/ SearchDuckDuckGo \/ SearchDone
    \/ ScrapeNewsReturns \/ SkipFeed \/ ParseRssFeed \/ ParseRssFeedDone
    \/ EndFeed \/ KeepRssArticle \/ ScrapeArticle \/ ParsePageDone \/ GetSoupDone
    \/ ScraperClose

\* every step of these sequential programs is a blocking call that returns
ScraperSpec == ScraperInit /\ [][ScraperNext]_vars /\ WF_vars(ScraperNext)

(***************************************************************************)
(* scrape_article after its two fetches: the document is stripped, the     *)
(* body is looked for with the selectors, and the body text is built and   *)
(* cleaned by remove_extra_spaces.                                         *)
(*                                                                         *)
(* A document is the sequence of its elements in document order; each      *)
(* element names its parent by position (0: the root). A text is a         *)
(* sequence of characters, an attribute value a sequence of pieces of      *)
(* text (an absent attribute is the empty value).                          *)
(***************************************************************************)
SP == " "
NL == "\n"
TAB == "\t"

Element(t, c, i, x) == [tag |-> t, class |-> c, id |-> i, text |-> x]

\* the elements a page is made of: one for each selector, a div matching none
\* of them, a header that matches one (and is stripped), and paragraphs
Shapes ==
    { Element("article", <<>>, <<>>, <<>>),
      Element("div", <<"article", "-", "content">>, <<>>, <<>>),
      Element("div", <<"x", SP, "article", "-", "body">>, <<>>, <<>>),
      Element("div", <<"post", "-", "content">>, <<>>, <<>>),
      Element("div", <<>>, <<"article", "-", "content">>, <<>>),
      Element("main", <<>>, <<>>, <<>>),
      Element("div", <<"article", SP, "content">>, <<>>, <<>>),
      Element("header", <<"article", "-", "content">>, <<>>, <<>>),
      Element("p", <<>>, <<>>, <<"a">>),
      Element("p", <<>>, <<>>, <<"b">>),
      Element("p", <<>>, <<>>, <<SP>>) }

\* the tags of `for tag in soup([...]): tag.decompose()`
StripTags == {"script", "style", "nav", "footer", "header", "aside", "iframe"}

\* element i is still in the document after the decompose loop
RECURSIVE Alive(_, _)
Alive(d, i) ==
    /\ d[i].shape.tag \notin StripTags
    /\ d[i].parent # 0 => Alive(d, d[i].parent)

\* element i is inside element b
RECURSIVE Within(_, _, _)
Within(d, i, b) ==
    /\ d[i].parent # 0
    /\ d[i].parent = b \/ Within(d, d[i].parent, b)

\* the selectors of scrape_article, in the order of the list
Selectors ==
    << [kind |-> "tag",   pat |-> <<"article">>],
       [kind |-> "class", pat |-> <<"article", "-", "content">>],
       [kind |-> "class", pat |-> <<"article", "-", "body">>],
       [kind |-> "class", pat |-> <<"post", "-", "content">>],
       [kind |-> "id",    pat |-> <<"article", "-", "content">>],
       [kind |-> "tag",   pat |-> <<"main">>] >>

\* value contains pat: the test of [attr*="pat"]
Contains(value, pat) ==
    \E k \in 0..(Len(value) - Len(pat)) : SubSeq(value, k + 1, k + Len(pat)) = pat

Matches(sel, e) ==
    CASE sel.kind = "tag"   -> <<e.tag>> = sel.pat
      [] sel.kind = "class" -> Contains(e.class, sel.pat)
      [] sel.kind = "id"    -> Contains(e.id, sel.pat)

\* soup.select_one(selector): the first match in document order, 0 for None
SelectOne(sel, d) ==
    LET hits == {i \in 1..Len(d) : Alive(d, i) /\ Matches(sel, d[i].shape)}
    IN  IF hits = {} THEN 0 ELSE CHOOSE i \in hits : \A j \in hits : i <= j

\* `if article_body: break`
LoopNeverBreaks(found) == FALSE
LoopBreaks(found) == found # 0

\* the selector loop from the k-th selector on: the value article_body has
\* after the loop and the number of selectors select_one was called with
RECURSIVE TrySelectors(_, _, _)
TrySelectors(k, d, sofar) ==
    IF k > Len(Selectors) THEN [body |-> sofar, consulted |-> k - 1]
    ELSE LET found == SelectOne(Selectors[k], d)
         IN  IF LoopBreaks(found) THEN [body |-> found, consulted |-> k]
             ELSE TrySelectors(k + 1, d, found)

(***************************************************************************)
(* Texts: str.strip, re.sub(r' +', ' ', .), re.sub(r'\n+', '\n', .),       *)
(* str.split('\n'), str.join.                                              *)
(***************************************************************************)
IsSpace(c) == c \in {SP, NL, TAB}

RECURSIVE LStrip(_)
LStrip(s) == IF s # <<>> /\ IsSpace(Head(s)) THEN LStrip(Tail(s)) ELSE s

RECURSIVE RStrip(_)
RStrip(s) ==
    IF s # <<>> /\ IsSpace(s[Len(s)]) THEN RStrip(SubSeq(s, 1, Len(s) - 1)) ELSE s

StripOnce(s) ==
    LET l == IF s # <<>> /\ IsSpace(Head(s)) THEN Tail(s) ELSE s
    IN  IF l # <<>> /\ IsSpace(l[Len(l)]) THEN SubSeq(l, 1, Len(l) - 1) ELSE l
Strip(s) == RStrip(LStrip(s))

\* re.sub(c+, c, s): every run of c becomes one c
RECURSIVE CollapsePairs(_, _)
CollapsePairs(s, c) ==
    IF Len(s) < 2 THEN s
    ELSE IF s[1] = c /\ s[2] = c THEN <<c>> \o CollapsePairs(Tail(Tail(s)), c)
    ELSE <<s[1]>> \o CollapsePairs(Tail(s), c)
RECURSIVE CollapseRuns(_, _)
CollapseRuns(s, c) ==
    IF Len(s) < 2 THEN s
    ELSE IF s[1] = c /\ s[2] = c THEN CollapseRuns(Tail(s), c)
    ELSE <<s[1]>> \o CollapseRuns(Tail(s), c)

\* s.split(c)
RECURSIVE Split(_, _)
Split(s, c) ==
    LET at == {i \in 1..Len(s) : s[i] = c}
    IN  IF at = {} THEN <<s>>
        ELSE LET i == CHOOSE x \in at : \A y \in at : x <= y
             IN  <<SubSeq(s, 1, i - 1)>> \o Split(SubSeq(s, i + 1, Len(s)), c)

\* sep.join(parts)
RECURSIVE Join(_, _)
Join(parts, sep) ==
    IF parts = <<>> THEN <<>>
    ELSE IF Len(parts) = 1 THEN parts[1]
    ELSE parts[1] \o sep \o Join(Tail(parts), sep)

\* remove_extra_spaces of Part4_exo2.py
RemoveExtraSpaces(text) ==
    IF text = <<>> THEN text
    ELSE LET spaced == CollapseRuns(text, SP)
             lined  == CollapseRuns(spaced, NL)
             parts  == Split(lined, NL)
             lines  == [i \in 1..Len(parts) |-> Strip(parts[i])]
         IN  Join(SelectSeq(lines, LAMBDA l : l # <<>>), <<NL>>)

\* p.get_text(strip=True) of a paragraph holding one string
GetTextStrip(e) == Strip(e.text)

\* article_body.find_all('p'): the paragraphs inside the body, in document order
FindAllP(d, b) ==
    SelectSeq([i \in 1..Len(d) |-> i],
              LAMBDA i : d[i].shape.tag = "p" /\ Alive(d, i) /\ Within(d, i, b))

\* [p.get_text(strip=True) for p in paragraphs if p.get_text(strip=True)]
ParagraphTexts(d, b) ==
    LET ps    == FindAllP(d, b)
        texts == [k \in 1..Len(ps) |-> GetTextStrip(d[ps[k]].shape)]
    IN  SelectSeq(texts, LAMBDA t : t # <<>>)

\* the separator of the join
ParagraphSeparator == <<NL, NL>>

\* page_data.get('main_text', ''): the fallback text parse_page extracted
PageTexts == {<<>>, <<"a", SP, SP, "b", NL, "c">>}

\* page_data: the 'main_text', 'title' and 'h1_tags' of parse_page's result; a
\* title or a heading without text is the empty string
PageSummaries ==
    { [main_text |-> <<>>, title |-> <<>>, h1_tags |-> <<>>],
      [main_text |-> <<"a", SP, SP, "b", NL, "c">>, title |-> <<"T">>, h1_tags |-> <<>>],
      [main_text |-> <<"a", SP, SP, "b", NL, "c">>, title |-> <<"T">>,
       h1_tags |-> << <<"H">>, <<"G">> >>],
      [main_text |-> <<>>, title |-> <<"T">>, h1_tags |-> << <<>>, <<"H">> >>],
      [main_text |-> <<"a", SP, SP, "b", NL, "c">>, title |-> <<>>,
       h1_tags |-> << <<"H">> >>] }

\* page_data.get('main_text', '')
FallbackTextEmpty(pd) == <<>>
FallbackText(pd) == pd.main_text

\* `if article_body:` (a Tag is always true): the joined paragraphs of the body,
\* whatever they hold; `else:` the fallback
MainTextOrFallback(d, b, pd) ==
    IF b # 0 /\ ParagraphTexts(d, b) # <<>>
       THEN Join(ParagraphTexts(d, b), ParagraphSeparator)
       ELSE FallbackText(pd)
MainText(d, b, pd) ==
    IF b # 0 THEN Join(ParagraphTexts(d, b), ParagraphSeparator)
    ELSE FallbackText(pd)

\* page_data.get('h1_tags', [''])[0] if page_data.get('h1_tags')
\*     else page_data.get('title', '')
ArticleTitle(pd) == IF pd.h1_tags # <<>> THEN pd.h1_tags[1] ELSE pd.title

ArticleInit ==
    /\ Constructed("ImprovedHTTPRequester", TRUE)
    /\ ua = 1
    /\ NoProgram("article", "article")
    /\ NoNews
    /\ NoCall
    /\ doc = <<>>
    /\ apc = "soup"
    /\ articleBody = 0
    /\ consulted = 0
    /\ mainText = <<>>
    /\ pageData = NoPageData
    /\ articleTitle = <<>>

\* get_soup: BeautifulSoup(response.content, 'html.parser') reads the next
\* element of the page; its parent is an element read before it, and a <p>
\* has no element inside it
ParseElement ==
    /\ apc = "soup"
    /\ Len(doc) < MaxElems
    /\ \E sh \in Shapes, par \in 0..Len(doc) :
          /\ par # 0 => doc[par].shape.tag # "p"
          /\ doc' = Append(doc, [shape |-> sh, parent |-> par])
    /\ UNCHANGED <<apc, articleBody, consulted, mainText, pageData, articleTitle,
                   fetchVars, scraperVars, pureVars>>

\* the decompose loop and the selector loop
SelectBody ==
    /\ apc = "soup"
    /\ LET r == TrySelectors(1, doc, 0)
       IN  /\ articleBody' = r.body
           /\ consulted' = r.consulted
    /\ apc' = "selected"
    /\ UNCHANGED <<doc, mainText, pageData, articleTitle, fetchVars, scraperVars,
                   pureVars>>

\* main_text: the paragraphs of the body, or the fallback, then
\* remove_extra_spaces; and the article_title of the returned record. page_data,
\* which parse_page returned before the second fetch, is read here first.
ExtractText ==
    /\ apc = "selected"
    /\ \E pd \in PageSummaries :
          /\ pageData' = pd
          /\ mainText' = RemoveExtraSpaces(MainText(doc, articleBody, pd))
          /\ articleTitle' = ArticleTitle(pd)
    /\ apc' = "text"
    /\ UNCHANGED <<doc, articleBody, consulted, fetchVars, scraperVars, pureVars>>

ArticleNext == ParseElement \/ SelectBody \/ ExtractText

ArticleSpec == ArticleInit /\ [][ArticleNext]_vars

(***************************************************************************)
(* A call of a function on its own: the requester, the programs and the    *)
(* article extraction are at rest.                                         *)
(***************************************************************************)
AtRest ==
    /\ Constructed("ImprovedHTTPRequester", TRUE)
    /\ ua = 1
    /\ NoProgram("function", "function")
    /\ NoNews
    /\ NoArticle

Calling(f) ==
    /\ callee = f
    /\ cpc = "called"
    /\ result = <<>>

Returns(f, value) ==
    /\ callee = f
    /\ cpc = "called"
    /\ result' = value
    /\ cpc' = "returned"
    /\ UNCHANGED <<callee, args, fetchVars, scraperVars, articleVars>>

(***************************************************************************)
(* remove_extra_spaces(text) on every text of up to MaxText characters and *)
(* on the text of the test of Part4_exo2.py's main, shortened.             *)
(***************************************************************************)
TextChars == {"a", SP, NL, TAB}

ExampleText == <<"a", SP, SP, SP, "b", NL, NL, NL, "c", SP, SP>>

Texts == SeqsUpTo(TextChars, MaxText) \cup {ExampleText}

NormalizeInit ==
    /\ AtRest
    /\ Calling("remove_extra_spaces")
    /\ \E t \in Texts : args = [text |-> t]

RemoveExtraSpacesCall ==
    Returns("remove_extra_spaces", RemoveExtraSpaces(args.text))

NormalizeNext == RemoveExtraSpacesCall

NormalizeSpec == NormalizeInit /\ [][NormalizeNext]_vars

(***************************************************************************)
(* URLs. A URL is a sequence of characters; a word that is never looked    *)
(* into ("http", "www", "example", ...) stands as one character, a letter. *)
(***************************************************************************)
Letters == {"http", "s", "ftp", "data", "www", "example", "co", "uk", "com",
            "cdn", "img", "x"}

\* scheme_chars of urllib.parse: letters, digits, '+', '-', '.'
SchemeChars == Letters \cup {"."}

StartsWith(s, p) == Len(s) >= Len(p) /\ SubSeq(s, 1, Len(p)) = p

Take(s, n) == SubSeq(s, 1, n)
Drop(s, n) == SubSeq(s, n + 1, Len(s))

\* s.find(c), counted from 1; 0 when c is not in s
Find(s, c) ==
    LET at == {i \in 1..Len(s) : s[i] = c}
    IN  IF at = {} THEN 0 ELSE CHOOSE i \in at : \A j \in at : i <= j

HttpPrefix == <<"http", ":", "/", "/">>
HttpsPrefix == <<"http", "s", ":", "/", "/">>
SlashSlash == <<"/", "/">>

\* uses_relative and uses_netloc of urllib.parse, as far as the schemes here go
UsesRelative == {<<>>, <<"http">>, <<"http", "s">>, <<"ftp">>}
UsesNetloc == {<<>>, <<"http">>, <<"http", "s">>, <<"ftp">>}

\* urlparse(url, scheme): scheme, netloc and path (no query or fragment here)
UrlParse(url, default) ==
    LET i         == Find(url, ":")
        hasScheme == /\ i > 1
                     /\ url[1] \in Letters
                     /\ \A k \in 1..(i - 1) : url[k] \in SchemeChars
        rest      == IF hasScheme THEN Drop(url, i) ELSE url
        hasNetloc == StartsWith(rest, SlashSlash)
        after     == Drop(rest, 2)
        j         == Find(after, "/")
    IN  [scheme |-> IF hasScheme THEN Take(url, i - 1) ELSE default,
         netloc |-> IF ~hasNetloc THEN <<>>
                    ELSE IF j = 0 THEN after ELSE Take(after, j - 1),
         path   |-> IF ~hasNetloc THEN rest
                    ELSE IF j = 0 THEN <<>> ELSE Drop(after, j - 1)]

\* urlunparse((scheme, netloc, path, '', '', ''))
UrlUnparse(scheme, netloc, path) ==
    LET rooted == IF path # <<>> /\ path[1] # "/" THEN <<"/">> \o path ELSE path
        tail   == IF netloc # <<>>
                     \/ (scheme # <<>> /\ scheme \in UsesNetloc
                           /\ ~StartsWith(path, SlashSlash))
                     THEN SlashSlash \o netloc \o rooted
                     ELSE path
    IN  IF scheme # <<>> THEN scheme \o <<":">> \o tail ELSE tail

\* the loop of urljoin over the segments: '..' pops, '.' is skipped
RECURSIVE ResolveDots(_, _)
ResolveDots(segments, resolved) ==
    IF segments = <<>> THEN resolved
    ELSE LET seg == Head(segments)
         IN  IF seg = <<".", ".">>
                THEN ResolveDots(Tail(segments),
                                 IF resolved = <<>> THEN resolved
                                 ELSE Take(resolved, Len(resolved) - 1))
             ELSE IF seg = <<".">> THEN ResolveDots(Tail(segments), resolved)
             ELSE ResolveDots(Tail(segments), Append(resolved, seg))

\* base_parts = bpath.split('/'), without its last part unless that is ''
BaseParts(parts) ==
    IF parts[Len(parts)] # <<>> THEN Take(parts, Len(parts) - 1) ELSE parts

\* segments[1:-1] = filter(None, segments[1:-1])
FilterMiddle(joined) ==
    LET kept == SelectSeq([k \in 1..Len(joined) |-> <<k, joined[k]>>],
                    LAMBDA e : e[1] = 1 \/ e[1] = Len(joined) \/ e[2] # <<>>)
    IN  [k \in 1..Len(kept) |-> kept[k][2]]

\* the segments of the joined path, before the dots are resolved
Segments(basePath, path) ==
    IF path[1] = "/" THEN Split(path, "/")
    ELSE FilterMiddle(BaseParts(Split(basePath, "/")) \o Split(path, "/"))

\* '/'.join(resolved_path) or '/', a final '.' or '..' leaving a trailing slash
ResolvedPath(segments) ==
    Join(ResolveDots(segments, <<>>)
            \o (IF segments[Len(segments)] \in {<<".">>, <<".", ".">>}
                   THEN << <<>> >> ELSE <<>>),
         <<"/">>)

OrRoot(path) == IF path = <<>> THEN <<"/">> ELSE path

\* urljoin once base and url are parsed into b and u
UrlJoinParsed(url, b, u) ==
    IF u.scheme # b.scheme \/ u.scheme \notin UsesRelative THEN url
    ELSE IF u.scheme \in UsesNetloc /\ u.netloc # <<>>
            THEN UrlUnparse(u.scheme, u.netloc, u.path)
    ELSE
    LET netloc == IF u.scheme \in UsesNetloc THEN b.netloc ELSE u.netloc
    IN  IF u.path = <<>> THEN UrlUnparse(u.scheme, netloc, b.path)
        ELSE UrlUnparse(u.scheme, netloc,
                        OrRoot(ResolvedPath(Segments(b.path, u.path))))

\* urlparse(url, bscheme), bscheme being the scheme of the parsed base
UrlJoinFrom(url, b) == UrlJoinParsed(url, b, UrlParse(url, b.scheme))

\* urljoin(base, url)
UrlJoin(base, url) ==
    IF base = <<>> THEN url
    ELSE IF url = <<>> THEN base
    ELSE UrlJoinFrom(url, UrlParse(base, <<>>))

(***************************************************************************)
(* extract_domain(url, include_subdomain) of Part4_exo2.py.                *)
(***************************************************************************)
\* ['co', 'com', 'ac', 'gov', 'org', 'net']
TwoPartSuffixesWithoutCo == {<<"com">>, <<"ac">>, <<"gov">>, <<"org">>, <<"net">>}
TwoPartSuffixes == {<<"co">>, <<"com">>, <<"ac">>, <<"gov">>, <<"org">>, <<"net">>}

\* the last n elements of a sequence
LastN(s, n) == SubSeq(s, Len(s) - n + 1, Len(s))

ExtractDomain(url, include_subdomain) ==
    IF url = <<>> THEN <<>>
    ELSE
    LET prefixed == IF StartsWith(url, HttpPrefix) \/ StartsWith(url, HttpsPrefix)
                       \/ StartsWith(url, SlashSlash)
                       THEN url ELSE HttpPrefix \o url
        parsedUrl == UrlParse(prefixed, <<>>)
        netloc   == IF parsedUrl.netloc # <<>> THEN parsedUrl.netloc
                    ELSE Split(parsedUrl.path, "/")[1]
        parts    == Split(netloc, ".")
    IN  IF include_subdomain THEN netloc
        ELSE IF Len(parts) <= 2 THEN netloc
        ELSE IF Len(parts) >= 3 /\ parts[Len(parts) - 1] \in TwoPartSuffixes
                THEN Join(LastN(parts, 3), <<".">>)
        ELSE Join(LastN(parts, 2), <<".">>)

\* the URLs extract_domain is called with: a prefix, a host of up to
\* MaxLabels labels, a path; and the empty URL
UrlPrefixes == {<<>>, HttpPrefix, HttpsPrefix, SlashSlash, <<"ftp", ":", "/", "/">>}
Labels == {<<"www">>, <<"example">>, <<"co">>, <<"uk">>, <<"com">>}
Hosts == {Join(ls, <<".">>) : ls \in SeqsUpTo(Labels, MaxLabels) \ {<<>>}}
UrlPaths == {<<>>, <<"/", "x">>}
DomainUrls == {pre \o host \o path : pre \in UrlPrefixes, host \in Hosts, path \in UrlPaths}
                 \cup {<<>>}

DomainInit ==
    /\ AtRest
    /\ Calling("extract_domain")
    /\ \E u \in DomainUrls, inc \in BOOLEAN :
          args = [url |-> u, include_subdomain |-> inc]

ExtractDomainCall ==
    Returns("extract_domain", ExtractDomain(args.url, args.include_subdomain))

DomainNext == ExtractDomainCall

DomainSpec == DomainInit /\ [][DomainNext]_vars

(***************************************************************************)
(* The links of a page: image_links and external_links of parse_page       *)
(* (Part4_exo3.py) and images of scrape_article (Part4_exo_final.py).      *)
(***************************************************************************)
\* what tag.get(name) gives for an attribute the tag does not have
None == <<"None">>

\* `if src:`
Truthy(v) == v # None /\ v # <<>>

\* image_links: urljoin(url, src) of every <img> with a src
ImageLinks(url, imgs) ==
    LET kept == SelectSeq(imgs, LAMBDA g : Truthy(g.src))
    IN  [k \in 1..Len(kept) |-> UrlJoin(url, kept[k].src)]

\* `if parsed_link.netloc and parsed_link.netloc != domain`
IsExternalOrHostless(netloc, domain) == netloc # domain
IsExternal(netloc, domain) == netloc # <<>> /\ netloc # domain

\* external_links: over soup.find_all('a', href=True)
ExternalLinks(url, anchors) ==
    LET domain   == UrlParse(url, <<>>).netloc
        withHref == SelectSeq(anchors, LAMBDA a : a.href # None)
        absolute == [k \in 1..Len(withHref) |-> UrlJoin(url, withHref[k].href)]
    IN  SelectSeq(absolute, LAMBDA l : IsExternal(UrlParse(l, <<>>).netloc, domain))

\* src = img.get('src') or img.get('data-src')
ImageSource(g) == IF Truthy(g.src) THEN g.src ELSE g.data_src

\* the src of the image entry scrape_article stores for a source, if any
ResolveImage(url, src) ==
    IF StartsWith(src, SlashSlash) THEN << <<"http", "s", ":">> \o src >>
    ELSE IF StartsWith(src, <<"/">>)
            THEN << HttpsPrefix \o ExtractDomain(url, FALSE) \o src >>
    ELSE IF ~StartsWith(src, <<"http">>) THEN <<>>
    ELSE <<src>>

\* images: over soup.find_all('img')
RECURSIVE Images(_, _)
Images(url, imgs) ==
    IF imgs = <<>> THEN <<>>
    ELSE (IF Truthy(ImageSource(Head(imgs)))
             THEN ResolveImage(url, ImageSource(Head(imgs))) ELSE <<>>)
            \o Images(url, Tail(imgs))

\* the pages: http://www.example.com/x/img, https://example.co.uk,
\* http://example.com/
PageUrls ==
    { HttpPrefix \o <<"www", ".", "example", ".", "com", "/", "x", "/", "img">>,
      HttpsPrefix \o <<"example", ".", "co", ".", "uk">>,
      HttpPrefix \o <<"example", ".", "com", "/">> }

\* values of src and href: //cdn.com/img, /img, img, ../img, http://cdn.com/img,
\* https://www.example.com/x, https://example.co.uk/x, data:img, httpx, and
\* the empty string
Refs ==
    { SlashSlash \o <<"cdn", ".", "com", "/", "img">>,
      <<"/", "img">>,
      <<"img">>,
      <<".", ".", "/", "img">>,
      HttpPrefix \o <<"cdn", ".", "com", "/", "img">>,
      HttpsPrefix \o <<"www", ".", "example", ".", "com", "/", "x">>,
      HttpsPrefix \o <<"example", ".", "co", ".", "uk", "/", "x">>,
      <<"data", ":", "img">>,
      <<"http", "x">>,
      <<>> }

ImgTags == [src : Refs \cup {None}, data_src : {None, <<"/", "img">>}]
AnchorTags == [href : Refs \cup {None}]

LinkInit ==
    /\ AtRest
    /\ \/ /\ Calling("image_links") \/ Calling("images")
          /\ \E u \in PageUrls, tags \in SeqsUpTo(ImgTags, MaxTags) :
                args = [url |-> u, tags |-> tags]
       \/ /\ Calling("external_links")
          /\ \E u \in PageUrls, tags \in SeqsUpTo(AnchorTags, MaxTags) :
                args = [url |-> u, tags |-> tags]

ParsePageImageLinks == Returns("image_links", ImageLinks(args.url, args.tags))

ParsePageExternalLinks == Returns("external_links", ExternalLinks(args.url, args.tags))

ScrapeArticleImages == Returns("images", Images(args.url, args.tags))

LinkNext == ParsePageImageLinks \/ ParsePageExternalLinks \/ ScrapeArticleImages

LinkSpec == LinkInit /\ [][LinkNext]_vars

(***************************************************************************)
(* The main_text of parse_page: the text of the stripped page, its lines   *)
(* stripped, the empty ones dropped, cut at TruncateLimit characters.      *)
(***************************************************************************)
\* lines = [line.strip() ...]; lines = [line for line in lines if line];
\* '\n'.join(lines)
CleanPageText(text) ==
    LET parts == Split(text, NL)
        lines == [i \in 1..Len(parts) |-> Strip(parts[i])]
    IN  Join(SelectSeq(lines, LAMBDA l : l # <<>>), <<NL>>)

EllipsisMarker == <<".", ".", ".">>

\* `if len(main_text) > 1000`
TooLongInclusive(n) == n >= TruncateLimit
TooLong(n) == n > TruncateLimit

\* main_text[:1000] + '...' if len(main_text) > 1000 else main_text
Truncated(text) ==
    IF TooLong(Len(text)) THEN Take(text, TruncateLimit) \o EllipsisMarker ELSE text

\* texts of soup.get_text(): n letters, a line break after the first one or
\* none, whitespace around; n near 0 and near the limit
TextLengths == (0..MaxAround) \cup ((TruncateLimit - MaxAround)..(TruncateLimit + MaxAround))
TextEdges == {<<>>, <<SP>>, <<NL, SP>>}
PageRawTexts ==
    { pre \o [i \in 1..n |-> IF i = 2 /\ br THEN NL ELSE "a"] \o post :
         pre \in TextEdges, post \in TextEdges, n \in TextLengths, br \in BOOLEAN }

PageTextInit ==
    /\ AtRest
    /\ Calling("main_text")
    /\ \E t \in PageRawTexts : args = [text |-> t]

ParsePageMainText == Returns("main_text", Truncated(CleanPageText(args.text)))

PageTextNext == ParsePageMainText

PageTextSpec == PageTextInit /\ [][PageTextNext]_vars

(***************************************************************************)
(* Properties of get/post and _request_with_retry.                         *)
(***************************************************************************)

\* the requests and sleeps of the current call, in the order they happened
Timeline == SelectSeq(events, LAMBDA e : e[1] # "rotate")

\* C1: a transport that fails N consecutive times and then succeeds is
\* answered after exactly N + 1 requests when max_retries >= N (failures is N
\* at the return), and the error is raised after exactly max_retries + 1
\* requests, all failed, when max_retries < N; while the budget is not
\* exhausted no failure reaches the caller.
C1_RetryBudget ==
    /\ fpc = "returned" => failures <= maxRetries /\ requests = failures + 1
    /\ fpc = "raised" => failures = maxRetries + 1 /\ requests = maxRetries + 1
    /\ fpc \in {"request", "sleep"} => failures <= maxRetries /\ requests = failures

C1_Witness ==
    /\ fpc = "returned"
    /\ failures = maxRetries
    /\ maxRetries = MaxRetriesBound
    /\ requests = MaxRetriesBound + 1

\* C2: within one call requests and sleeps strictly alternate, starting with a
\* request; every sleep lasts retry_delay; a failed attempt below max_retries
\* is followed by a sleep, a success or the final failure by nothing, so a
\* finished call with k requests has slept k - 1 times.
C2_RequestsAndSleepsAlternate ==
    /\ \A i \in 1..Len(Timeline) :
          IF i % 2 = 1 THEN Timeline[i][1] = "request"
                       ELSE Timeline[i] = <<"sleep", retryDelay>>
    /\ Len(Timeline) = requests + sleeps
    /\ fpc = "sleep" => sleeps = requests - 1 /\ attempt < maxRetries
    /\ fpc = "request" => sleeps = requests
    /\ Done => sleeps = requests - 1
    /\ fpc = "raised" => attempt >= maxRetries
    /\ fpc = "returned" => ~response.exc

C2_Witness ==
    /\ Done
    /\ requests = 3
    /\ sleeps = 2
    /\ retryDelay = 1

\* C3: whatever the transport answers, a call that has started ends by
\* returning or raising, and it never issues more than max_retries + 1 requests.
C3_TerminatesWithinBudget ==
    /\ [](requests <= maxRetries + 1)
    /\ (fpc \in {"request", "sleep"}) ~> Done

C3_Witness ==
    /\ fpc = "raised"
    /\ maxRetries = MaxRetriesBound
    /\ requests = MaxRetriesBound + 1

\* C4: with rotation enabled every request, the first and each retry, comes
\* right after a selection of the User-Agent from the pool, and carries the
\* User-Agent selected there.
C4_RotationBeforeEveryRequest ==
    (cls = "ImprovedHTTPRequester" /\ rotate) =>
        /\ \A i \in 1..Len(events) :
              events[i][1] = "request" => i > 1 /\ events[i - 1][1] = "rotate"
        /\ fpc \in {"sleep", "returned", "raised"} => sentUA \in Pool /\ sentUA = ua

C4_Witness ==
    /\ cls = "ImprovedHTTPRequester"
    /\ rotate
    /\ fpc = "returned"
    /\ requests = 2
    /\ Len(events) = 5
    /\ sentUA = PoolSize

\* C5 as stated: a response is returned to the caller only with a 2xx or 3xx
\* status; any other status takes the failure path.
C5_OnlySuccessStatusReturned ==
    fpc = "returned" => 200 <= response.status /\ response.status < 400

\* C5 as amended: a response with a 4xx or 5xx status is handled exactly as a
\* transport error (sleep and retry below max_retries, raise at max_retries,
\* never a return); every other response, a 1xx one included, is returned.
C5_ErrorStatusIsFailure ==
    LET httpError == ~response.exc /\ 400 <= response.status /\ response.status < 600
    IN  fpc \in {"returned", "sleep", "raised"} =>
            /\ (response.exc \/ httpError) =>
                  fpc = (IF attempt >= maxRetries THEN "raised" ELSE "sleep")
            /\ ~(response.exc \/ httpError) => fpc = "returned"

C5_Witness ==
    /\ fpc = "sleep"
    /\ response.status = 404
    /\ attempt = 1

(***************************************************************************)
(* Properties of the programs: the `with` block and the scrapers.          *)
(***************************************************************************)

\* how far a program has come, as a number read digit by digit: the outer
\* loop counter, the phase, the article, the stage of scrape_article, the
\* attempt of the fetch in flight and its position
Progress ==
    LET phase == CASE spc \in {"bodyFetch", "search", "feedLoop"} -> 0
                   [] spc \in {"body", "searchFetch", "feedFetch"} -> 1
                   [] spc \in {"artLoop", "pageFetch", "soupFetch"} -> 2
                   [] spc = "mainEnd" -> 8
                   [] OTHER -> 9
        stage == CASE spc = "pageFetch" -> 1
                   [] spc = "soupFetch" -> 2
                   [] OTHER -> 0
        at    == CASE fpc = "idle" -> 0
                   [] fpc = "request" -> 1
                   [] fpc = "sleep" -> 2
                   [] OTHER -> 3
    IN  ((((feedIdx + count) * 10 + phase) * 10 + artIdx) * 10 + stage) * 100
            + attempt * 10 + at

\* C6: the session is closed on every way out. A `with` block that has been
\* left, by its end or by a raise, has closed it; no exception leaves a
\* scraper's main, fetches that fail after their last retry included; and each
\* program reaches its close: until then a step is always possible, and every
\* step moves the program forward (Progress grows and is bounded), so under
\* the fairness of ScraperSpec the close is reached.
C6_SessionClosedOnEveryPath ==
    /\ [](spc = "exited" => closed >= 1)
    /\ [](prog \in {"rss", "search"} => ~uncaught)
    /\ [](spc # "exited" => ENABLED ScraperNext)
    /\ [][Progress' > Progress]_vars

C6_Witness ==
    /\ prog = "rss"
    /\ spc = "exited"
    /\ closed = 1
    /\ saStage = "fetch1"
    /\ saResult = "empty"

\* C7: scrape_article hands its caller a value, never an exception: when a
\* fetch raised after its last retry, or parsing or extraction raised, the
\* value is the empty record {}.
C7_ScrapeArticleNeverRaises ==
    /\ saResult # "raise"
    /\ saStage \in {"fetch1", "parse", "fetch2", "extract"} => saResult = "empty"
    /\ saStage = "ok" => saResult = "full"
    /\ prog = "rss" => ~uncaught /\ spc # "crashed"

C7_Witness ==
    /\ saStage = "fetch2"
    /\ saResult = "empty"
    /\ spc = "artLoop"

\* the feeds of the batch rss_feeds[:5] that have a url, from position i on
RECURSIVE UrlFeedsFrom(_)
UrlFeedsFrom(i) ==
    IF i > Min(Len(feeds), FeedLimit) THEN <<>>
    ELSE (IF feeds[i] THEN <<i>> ELSE <<>>) \o UrlFeedsFrom(i + 1)

\* <<feed, item>> of the articles the parsed feeds list, cut to
\* max_articles_per_feed each, from the k-th parsed feed on
RECURSIVE ListedFrom(_)
ListedFrom(k) ==
    IF k > Len(parsed) THEN <<>>
    ELSE [j \in 1..Min(parsed[k][2], maxPerFeed) |-> <<parsed[k][1], j>>]
             \o ListedFrom(k + 1)

\* C8: when scrape_news returns, every feed of the batch that has a url was
\* parsed, in order, whatever failed before it, and the output holds exactly
\* one record for each listed article, in order, a failed scrape included; no
\* failure ends the batch early.
C8_BatchSurvivesFailures ==
    /\ prog = "rss" => spc # "crashed"
    /\ (prog = "rss" /\ spc \in {"mainEnd", "exited"}) =>
          /\ [k \in 1..Len(parsed) |-> parsed[k][1]] = UrlFeedsFrom(1)
          /\ [k \in 1..Len(out) |-> <<out[k].feed, out[k].item>>] = ListedFrom(1)

C8_Witness ==
    /\ prog = "rss"
    /\ spc = "mainEnd"
    /\ Len(parsed) = 2
    /\ parsed[1][3] = "fetch"
    /\ Len(out) = 2
    /\ out[1].kind = "empty"
    /\ out[2].kind = "full"

(***************************************************************************)
(* Properties of the extraction of scrape_article.                         *)
(***************************************************************************)

\* C9: the article body is the first element, in document order, matched by
\* the first selector of the list that matches an element of the stripped
\* document; select_one is called with no selector after that one, so a later
\* selector that also matches never replaces the body; when no selector
\* matches, all were consulted and there is no body.
C9_FirstMatchingSelectorWins ==
    apc \in {"selected", "text"} =>
        LET hit(k, i) == Alive(doc, i) /\ Matches(Selectors[k], doc[i].shape)
            matching  == {k \in 1..Len(Selectors) : \E i \in 1..Len(doc) : hit(k, i)}
        IN  IF matching = {}
               THEN articleBody = 0 /\ consulted = Len(Selectors)
               ELSE LET first == CHOOSE k \in matching : \A j \in matching : k <= j
                    IN  /\ consulted = first
                        /\ articleBody \in 1..Len(doc)
                        /\ hit(first, articleBody)
                        /\ \A i \in 1..(articleBody - 1) : ~hit(first, i)

C9_Witness ==
    /\ apc = "selected"
    /\ articleBody # 0
    /\ \E k \in (consulted + 1)..Len(Selectors) :
          /\ SelectOne(Selectors[k], doc) # 0
          /\ SelectOne(Selectors[k], doc) < articleBody

\* C10 as stated: when a body is found the body text is the texts of its
\* non-empty paragraphs, in document order, consecutive ones separated by a
\* blank line (two newlines).
C10_ParagraphsSeparatedByBlankLine ==
    (apc = "text" /\ articleBody # 0) =>
        mainText = Join(ParagraphTexts(doc, articleBody), <<NL, NL>>)

\* C11: when no selector matches, the body text is the main_text of the
\* page_data that parse_page returned, passed once more through
\* remove_extra_spaces; it is empty only when that text has nothing but
\* whitespace in it.
C11_FallbackIsPageText ==
    (apc = "text" /\ articleBody = 0) =>
        /\ consulted = Len(Selectors)
        /\ mainText = RemoveExtraSpaces(pageData.main_text)
        /\ (\E i \in 1..Len(pageData.main_text) : ~IsSpace(pageData.main_text[i]))
              => mainText # <<>>

C11_Witness ==
    /\ apc = "text"
    /\ articleBody = 0
    /\ Len(doc) = MaxElems
    /\ pageData.main_text = <<"a", SP, SP, "b", NL, "c">>
    /\ mainText = <<"a", SP, "b", NL, "c">>

(***************************************************************************)
(* Properties of the text helpers of Part4_exo2.py.                        *)
(***************************************************************************)

\* C14: remove_extra_spaces is idempotent: applied to its own result it
\* returns that result, for every text, the empty one, those of whitespace
\* only and those mixing spaces, tabs and newlines included.
C14_NormalizeIdempotent ==
    (callee = "remove_extra_spaces" /\ cpc = "returned") =>
        RemoveExtraSpaces(result) = result

C14_Witness ==
    /\ callee = "remove_extra_spaces"
    /\ cpc = "returned"
    /\ args.text = <<SP, TAB, SP, "a">>
    /\ result = <<"a">>

\* the lines of a text, each with its runs of spaces collapsed and stripped
\* of whitespace at both ends, without those that became empty
CleanLines(text) ==
    LET parts == Split(text, NL)
        clean == [i \in 1..Len(parts) |-> Strip(CollapseRuns(parts[i], SP))]
    IN  SelectSeq(clean, LAMBDA l : l # <<>>)

\* C15: the result of remove_extra_spaces on a non-empty text is its cleaned
\* lines, in their order, joined by one newline; it never holds two spaces or
\* two newlines in a row nor a newline at either end; the empty text is
\* returned as it is.
C15_NormalizeLines ==
    (callee = "remove_extra_spaces" /\ cpc = "returned") =>
        /\ result = Join(CleanLines(args.text), <<NL>>)
        /\ \A i \in 1..(Len(result) - 1) :
              ~(result[i] = SP /\ result[i + 1] = SP)
              /\ ~(result[i] = NL /\ result[i + 1] = NL)
        /\ result # <<>> => result[1] # NL /\ result[Len(result)] # NL
        /\ args.text = <<>> => result = <<>>

C15_Witness ==
    /\ callee = "remove_extra_spaces"
    /\ cpc = "returned"
    /\ args.text = ExampleText
    /\ result = <<"a", SP, "b", NL, "c">>

(***************************************************************************)
(* Properties of the URLs: extract_domain and the links of a page.         *)
(***************************************************************************)

\* a URL read as its grammar has it: where the host starts (after "//" at the
\* start, or after a scheme and "://"), 0 when the URL names no host
HostStart(u) ==
    IF StartsWith(u, SlashSlash) THEN 3
    ELSE LET i == Find(u, ":")
         IN  IF i > 1 /\ StartsWith(Drop(u, i), SlashSlash) THEN i + 3 ELSE 0

UpToSlash(u) == IF Find(u, "/") = 0 THEN u ELSE Take(u, Find(u, "/") - 1)

\* the host (authority) of a URL, empty when it names none
HostOf(u) == IF HostStart(u) = 0 THEN <<>> ELSE UpToSlash(Drop(u, HostStart(u) - 1))

\* the scheme of a URL, empty when it has none
SchemeOf(u) ==
    LET i == Find(u, ":")
    IN  IF i > 1 /\ \A k \in 1..(i - 1) : u[k] \in Letters THEN Take(u, i - 1) ELSE <<>>

\* an absolute URL: a scheme and a host
IsAbsolute(u) == SchemeOf(u) # <<>> /\ HostOf(u) # <<>>

\* C12 as stated: every URL stored by parse_page (image_links,
\* external_links) and by scrape_article (the src of images) is absolute: it
\* has a scheme and a host, so no protocol-relative, root-relative or bare
\* relative form is stored.
C12_StoredUrlsAbsolute ==
    (callee \in {"image_links", "external_links", "images"} /\ cpc = "returned") =>
        \A k \in 1..Len(result) : IsAbsolute(result[k])

\* the image source as the claim resolves it: "https:" before a
\* protocol-relative one, the page's scheme and host before a root-relative
\* one, an absolute one as it is, nothing for any other
ClaimedImage(url, src) ==
    IF StartsWith(src, SlashSlash) THEN << <<"http", "s", ":">> \o src >>
    ELSE IF StartsWith(src, <<"/">>)
            THEN << SchemeOf(url) \o <<":">> \o SlashSlash \o HostOf(url) \o src >>
    ELSE IF IsAbsolute(src) THEN <<src>>
    ELSE <<>>

RECURSIVE ClaimedImages(_, _)
ClaimedImages(url, imgs) ==
    IF imgs = <<>> THEN <<>>
    ELSE LET g   == Head(imgs)
             src == IF g.src # None /\ g.src # <<>> THEN g.src ELSE g.data_src
         IN  (IF src # None /\ src # <<>> THEN ClaimedImage(url, src) ELSE <<>>)
                \o ClaimedImages(url, Tail(imgs))

\* C13 as stated: scrape_article resolves each image source (src, or data-src
\* without a src) so: protocol-relative gets "https:" in front, root-relative
\* gets the page's own scheme and host in front, one that is neither and is
\* not absolute is dropped, an absolute one is kept as it is.
C13_ImageSourcesResolved ==
    (callee = "images" /\ cpc = "returned") =>
        result = ClaimedImages(args.url, args.tags)

C17_FullHostForAnyScheme ==
    (callee = "extract_domain" /\ cpc = "returned" /\ args.include_subdomain) =>
        result = IF HostStart(args.url) # 0 THEN HostOf(args.url)
                 ELSE UpToSlash(args.url)

\* C19: external_links holds, in document order, exactly the resolved href of
\* every anchor with a non-empty href whose resolved URL has a host other than
\* the page's; no link to the page's own host and none without a host is in it.
C19_ExternalLinks ==
    (callee = "external_links" /\ cpc = "returned") =>
        LET hrefs    == SelectSeq(args.tags, LAMBDA a : a.href # None /\ a.href # <<>>)
            resolved == [k \in 1..Len(hrefs) |-> UrlJoin(args.url, hrefs[k].href)]
        IN  /\ result = SelectSeq(resolved,
                           LAMBDA l : HostOf(l) # <<>> /\ HostOf(l) # HostOf(args.url))
            /\ \A k \in 1..Len(result) :
                  HostOf(result[k]) \notin {<<>>, HostOf(args.url)}

C19_Witness ==
    /\ callee = "external_links"
    /\ cpc = "returned"
    /\ args.url = HttpPrefix \o <<"www", ".", "example", ".", "com", "/", "x", "/", "img">>
    /\ args.tags = << [href |-> HttpsPrefix \o <<"www", ".", "example", ".", "com", "/", "x">>],
                      [href |-> SlashSlash \o <<"cdn", ".", "com", "/", "img">>] >>
    /\ result = << HttpPrefix \o <<"cdn", ".", "com", "/", "img">> >>

(***************************************************************************)
(* Properties of parse_page's main_text and of the article title.          *)
(***************************************************************************)

\* C18: the main_text of parse_page is the cleaned page text cut at 1000
\* characters: longer than 1000, its first 1000 characters and then '...';
\* otherwise the cleaned text itself, without the marker; never more than
\* 1003 characters.
C18_TruncatedAt1000 ==
    (callee = "main_text" /\ cpc = "returned") =>
        LET cleaned == CleanPageText(args.text)
        IN  /\ Len(cleaned) > 1000 =>
                  /\ Len(result) = 1003
                  /\ SubSeq(result, 1, 1000) = SubSeq(cleaned, 1, 1000)
                  /\ SubSeq(result, 1001, 1003) = <<".", ".", ".">>
            /\ Len(cleaned) <= 1000 => result = cleaned
            /\ Len(result) <= 1003

C18_Witness ==
    /\ callee = "main_text"
    /\ cpc = "returned"
    /\ Len(args.text) = 1003
    /\ Len(CleanPageText(args.text)) = 1001
    /\ Len(result) = 1003
    /\ result[1003] = "."

\* C20 as stated: the article title is the first h1 of the page_data; when
\* there is no usable first h1 it is the page title, and the empty string
\* when there is no page title either.
C20_TitleFallsBack ==
    apc = "text" =>
        articleTitle =
           IF pageData.h1_tags # <<>> /\ pageData.h1_tags[1] # <<>>
              THEN pageData.h1_tags[1]
              ELSE pageData.title


(***************************************************************************)
(* scrape_article and its two fetches.                                     *)
(***************************************************************************)
\* the requests the scrape_article call under way has issued so far
SaIssued ==
    saRequests + (IF spc \in {"pageFetch", "soupFetch"} THEN requests ELSE 0)

\* scrape_article's own get_soup starts
SecondFetchStarts == spc # "soupFetch" /\ spc' = "soupFetch"

\* a fetch of scrape_article has raised and scrape_article is left
FetchFailsForGood ==
    /\ spc \in {"pageFetch", "soupFetch"}
    /\ fpc = "raised"
    /\ spc' # spc

\* C21: scrape_article fetches twice, one fetch after the other, each with the
\* full retry budget of the default max_retries: the second fetch starts only
\* from a first fetch that returned, and starts at attempt 0 with no request
\* issued; a fetch that fails for good ends scrape_article with the empty
\* record and no further fetch; one scrape_article call issues at most 8
\* requests.
C21_TwoFetchesEightRequests ==
    /\ [](/\ spc \in {"pageFetch", "soupFetch"} =>
                /\ maxRetries = DefaultMaxRetries
                /\ attempt <= DefaultMaxRetries
                /\ requests <= DefaultMaxRetries + 1
          /\ spc = "soupFetch" => saRequests >= 1
          /\ saStage \in {"fetch1", "fetch2"} => saResult = "empty"
          /\ SaIssued <= 8)
    /\ [][/\ SecondFetchStarts =>
                /\ spc = "pageFetch" /\ fpc = "returned"
                /\ saRequests' = requests
                /\ attempt' = 0 /\ requests' = 0 /\ failures' = 0
                /\ maxRetries' = DefaultMaxRetries
          /\ FetchFailsForGood =>
                /\ spc' = "artLoop" /\ fpc' = "idle"
                /\ saResult' = "empty"
                /\ saStage' = (IF spc = "pageFetch" THEN "fetch1" ELSE "fetch2")]_vars

\* the second fetch succeeds at its last attempt after the first did the same:
\* eight requests in all
C21_Witness ==
    /\ spc = "soupFetch" /\ fpc = "returned"
    /\ saRequests = DefaultMaxRetries + 1
    /\ requests = DefaultMaxRetries + 1
    /\ SaIssued = 8

(***************************************************************************)
(* scrape_article: a body without text.                                    *)
(***************************************************************************)
\* some selector of the list matches an element left in the document
SomeSelectorMatches(d) ==
    \E k \in 1..Len(Selectors), i \in 1..Len(d) :
        Alive(d, i) /\ Matches(Selectors[k], d[i].shape)

\* the body b holds a <p> whose text is more than whitespace
NonEmptyParagraphIn(d, b) ==
    \E i \in 1..Len(d) :
        /\ d[i].shape.tag = "p"
        /\ Alive(d, i)
        /\ Within(d, i, b)
        /\ \E k \in 1..Len(d[i].shape.text) : ~IsSpace(d[i].shape.text[k])

\* C22: when a selector matches, a body is found, and if that body holds no
\* non-empty <p> the body text of the record is empty, whatever text page_data
\* has: the fallback to the text of page_data is taken only when no selector
\* matches at all.
C22_NoFallbackForEmptyBody ==
    apc = "text" =>
        /\ SomeSelectorMatches(doc) <=> articleBody # 0
        /\ (articleBody # 0 /\ ~NonEmptyParagraphIn(doc, articleBody))
              => mainText = <<>>
        /\ (mainText # <<>> /\ ~NonEmptyParagraphIn(doc, articleBody))
              => ~SomeSelectorMatches(doc)

\* a body whose only paragraph is blank, on a page whose own text is not empty
C22_Witness ==
    /\ apc = "text"
    /\ articleBody # 0
    /\ \E i \in 1..Len(doc) :
          doc[i].shape.tag = "p" /\ Within(doc, i, articleBody)
    /\ ~NonEmptyParagraphIn(doc, articleBody)
    /\ RemoveExtraSpaces(pageData.main_text) # <<>>
    /\ mainText = <<>>
====
